---------------------------- MODULE Spec2Model ----------------------------
(***************************************************************************)
(* Model of the market-data pipeline of daily_stock_analysis:              *)
(*   - data_provider/yfinance_fetcher.py : YfinanceFetcher (symbol         *)
(*     conversion, retried raw fetch, normalisation)                       *)
(*   - market_analyzer.py : MarketAnalyzer (bounded retry helper, the five *)
(*     phases of get_market_overview)                                      *)
(* Strings are sequences of one-character strings, so that prefix tests,   *)
(* case folding and integer parsing are computed and not assumed.          *)
(***************************************************************************)
EXTENDS Integers, Sequences, FiniteSets, TLC

VARIABLES
    tr,         \* _convert_stock_code under test: input, first and second output
    fx,         \* one _fetch_raw_data call under the tenacity retry decorator
    nm,         \* one _normalize_data call: raw frame and normalised frame
    rg,         \* the fetcher registry driving the fallback chain
    rt,         \* the frame of _call_akshare_with_retry
    pc,         \* position inside get_market_overview / the running phase
    overview,   \* the MarketOverview being filled
    loc,        \* the locals of the running phase that outlive one step
    world,      \* what the akshare endpoints would return when they do not raise
    hist        \* the phases completed so far, in order, each with how it ended

vars == <<tr, fx, nm, rg, rt, pc, overview, loc, world, hist>>

(***************************************************************************)
(* Bounds of the model.                                                    *)
(***************************************************************************)
MaxBody == 3
MaxBars == 2
MaxDomestic == 3
MaxAttempts == 4
MaxQuoteRows == 4

(***************************************************************************)
(* Python str operations, on sequences of characters.                      *)
(***************************************************************************)
LowerSeq ==
    <<"a", "b", "c", "d", "e", "f", "g", "h", "i", "j", "k", "l", "m",
      "n", "o", "p", "q", "r", "s", "t", "u", "v", "w", "x", "y", "z">>
UpperSeq ==
    <<"A", "B", "C", "D", "E", "F", "G", "H", "I", "J", "K", "L", "M",
      "N", "O", "P", "Q", "R", "S", "T", "U", "V", "W", "X", "Y", "Z">>
DigitSeq == <<"0", "1", "2", "3", "4", "5", "6", "7", "8", "9">>

Range(s) == {s[i] : i \in DOMAIN s}

IsLetter(c) == c \in Range(LowerSeq) \cup Range(UpperSeq)
IsDigit(c) == c \in Range(DigitSeq)
IsSpace(c) == c = " "

UpperChar(c) ==
    IF c \in Range(LowerSeq)
    THEN UpperSeq[CHOOSE i \in DOMAIN LowerSeq : LowerSeq[i] = c]
    ELSE c

LowerChar(c) ==
    IF c \in Range(UpperSeq)
    THEN LowerSeq[CHOOSE i \in DOMAIN UpperSeq : UpperSeq[i] = c]
    ELSE c

Upper(s) == [i \in DOMAIN s |-> UpperChar(s[i])]
Lower(s) == [i \in DOMAIN s |-> LowerChar(s[i])]

\* s[n:] of Python, n counted from 0
Drop(s, n) == IF n >= Len(s) THEN <<>> ELSE SubSeq(s, n + 1, Len(s))

StartsWith(s, p) == Len(p) <= Len(s) /\ SubSeq(s, 1, Len(p)) = p

\* sub in s
Contains(s, sub) ==
    \E i \in 1..(Len(s) - Len(sub) + 1) : SubSeq(s, i, i + Len(sub) - 1) = sub

\* str.isalpha(): at least one character and all of them letters
IsAlpha(s) == Len(s) > 0 /\ \A i \in DOMAIN s : IsLetter(s[i])

RECURSIVE LStrip(_)
LStrip(s) == IF s # <<>> /\ IsSpace(Head(s)) THEN LStrip(Tail(s)) ELSE s

RECURSIVE RStrip(_)
RStrip(s) ==
    IF s # <<>> /\ IsSpace(s[Len(s)]) THEN RStrip(SubSeq(s, 1, Len(s) - 1)) ELSE s

Strip(s) == RStrip(LStrip(s))

\* s.replace(sub, ''): every non-overlapping occurrence, left to right
RECURSIVE Remove(_, _)
Remove(s, sub) ==
    IF s = <<>> THEN <<>>
    ELSE IF StartsWith(s, sub) THEN Remove(Drop(s, Len(sub)), sub)
    ELSE <<Head(s)>> \o Remove(Tail(s), sub)

DigitVal(c) == (CHOOSE i \in DOMAIN DigitSeq : DigitSeq[i] = c) - 1

\* the text int() accepts: optional surrounding blanks, optional sign, digits
\* with single underscores between digits
IntBody(s) ==
    LET t == Strip(s)
    IN  IF t # <<>> /\ Head(t) \in {"+", "-"} THEN Tail(t) ELSE t

IntParses(s) ==
    LET b == IntBody(s)
    IN  /\ b # <<>>
        /\ \A i \in DOMAIN b :
              \/ IsDigit(b[i])
              \/ /\ b[i] = "_"
                 /\ i > 1 /\ i < Len(b)
                 /\ IsDigit(b[i - 1]) /\ IsDigit(b[i + 1])

RECURSIVE DigitsValue(_, _)
DigitsValue(b, acc) ==
    IF b = <<>> THEN acc
    ELSE IF Head(b) = "_" THEN DigitsValue(Tail(b), acc)
    ELSE DigitsValue(Tail(b), 10 * acc + DigitVal(Head(b)))

IntValue(s) ==
    LET t == Strip(s)
        v == DigitsValue(IntBody(s), 0)
    IN  IF t # <<>> /\ Head(t) = "-" THEN 0 - v ELSE v

RECURSIVE DigitsOf(_)
DigitsOf(n) ==
    IF n < 10 THEN <<DigitSeq[n + 1]>>
    ELSE DigitsOf(n \div 10) \o <<DigitSeq[(n % 10) + 1]>>

RECURSIVE ZeroPad(_, _)
ZeroPad(s, w) == IF Len(s) >= w THEN s ELSE ZeroPad(<<"0">> \o s, w)

\* f"{n:04d}"
Format04d(n) ==
    IF n >= 0 THEN ZeroPad(DigitsOf(n), 4)
    ELSE <<"-">> \o ZeroPad(DigitsOf(0 - n), 3)

(***************************************************************************)
(* YfinanceFetcher._convert_stock_code                                     *)
(***************************************************************************)
Returned(v) == [ok |-> TRUE, val |-> v, err |-> "none"]
Raised(e) == [ok |-> FALSE, val |-> <<>>, err |-> e]

HasYahooSuffix(code) ==
    \/ Contains(Upper(code), <<".", "S", "S">>)
    \/ Contains(Upper(code), <<".", "S", "Z">>)
    \/ Contains(Upper(code), <<".", "H", "K">>)

ShanghaiPrefixes == {<<"6", "0", "0">>, <<"6", "0", "1">>, <<"6", "0", "3">>, <<"6", "8", "8">>}
ShenzhenPrefixes == {<<"0", "0", "0">>, <<"0", "0", "2">>, <<"3", "0", "0">>}

ConvertDomestic(code0) ==
    LET code == Remove(Remove(code0, <<".", "S", "H">>), <<".", "s", "h">>)
    IN  IF \E p \in ShanghaiPrefixes : StartsWith(code, p)
        THEN Returned(code \o <<".", "S", "S">>)
        ELSE IF \E p \in ShenzhenPrefixes : StartsWith(code, p)
        THEN Returned(code \o <<".", "S", "Z">>)
        ELSE Returned(code)

\* mutant: an unparsable remainder is passed through instead of raising
ConvertHongKongLenient(code) ==
    LET clean_code == Drop(code, 2)
    IN  IF IntParses(clean_code)
        THEN Returned(Format04d(IntValue(clean_code)) \o <<".", "H", "K">>)
        ELSE Returned(Upper(code))

ConvertHongKong(code) ==
    LET clean_code == Drop(code, 2)
    IN  IF IntParses(clean_code)
        THEN Returned(Format04d(IntValue(clean_code)) \o <<".", "H", "K">>)
        ELSE Raised("ValueError")

ConvertStockCode(stock_code) ==
    LET code == Strip(stock_code)
    IN  IF StartsWith(Lower(code), <<"u", "s">>)
        THEN Returned(Upper(Drop(code, 2)))
        ELSE IF IsAlpha(code) \/ Contains(code, <<"-">>)
        THEN Returned(Upper(code))
        ELSE IF HasYahooSuffix(code)
        THEN Returned(Upper(code))
        ELSE IF StartsWith(Lower(code), <<"h", "k">>)
        THEN ConvertHongKong(code)
        ELSE ConvertDomestic(code)

(***************************************************************************)
(* Values of the components a specification does not exercise.             *)
(***************************************************************************)
IdleTr == [pc |-> "idle", code |-> <<>>, out1 |-> Raised("none"), out2 |-> Raised("none")]
IdleFx ==
    [pc |-> "idle", stock_code |-> <<>>, attempt_number |-> 0, log |-> <<>>,
     outcome |-> [failed |-> FALSE, exc |-> "none"], waits |-> <<>>, error |-> "none"]
IdleNm ==
    [pc |-> "idle", stock_code |-> <<>>,
     raw |-> [index_name |-> <<>>, index |-> <<>>, cols |-> <<>>, col |-> <<>>],
     out |-> [cols |-> <<>>, col |-> <<>>]]
IdleRg ==
    [pc |-> "idle", fetchers |-> <<>>, next |-> 0, invoked |-> <<>>, failed |-> {},
     result |-> "none"]
\* a table an endpoint hands over: None, or a frame of rows
NoneFrame == [none |-> TRUE, rows |-> <<>>]

IdleRt ==
    [pc |-> "idle", name |-> "none", attempts |-> 0, attempt |-> 0, calls |-> 0,
     sleeps |-> <<>>, last_error |-> "none", result |-> NoneFrame]
IdleLoc == [i |-> 0, indices |-> <<>>]
IdleWorld ==
    [fn |-> NoneFrame, index_spot |-> NoneFrame, hk_spot |-> NoneFrame,
     us |-> <<NoneFrame, NoneFrame, NoneFrame>>, a_spot |-> NoneFrame, board |-> NoneFrame]

\* MarketOverview(date=today): every list empty, every counter 0
IdleOverview ==
    [indices |-> <<>>, hk_indices |-> <<>>, us_indices |-> <<>>,
     up_count |-> 0, down_count |-> 0, flat_count |-> 0,
     limit_up_count |-> 0, limit_down_count |-> 0, total_amount |-> 0, north_flow |-> 0,
     top_sectors |-> <<>>, bottom_sectors |-> <<>>]

(***************************************************************************)
(* Specification SpecTranslate: _convert_stock_code applied to an          *)
(* identifier and then to its own output.                                  *)
(***************************************************************************)
\* the identifiers tried: a marker or none, a body of up to MaxBody characters
\* or one of the fixed bodies, and a suffix or none
TranslateInputs ==
    LET BodyChars == {"0", "7", "U", "S", "B", "-"}

        FreeBodies == UNION {[1..k -> BodyChars] : k \in 0..MaxBody}

        FixedBodies ==
            { <<"6", "0", "0", "5", "1", "9">>, <<"0", "0", "0", "0", "0", "1">>,
              <<"3", "0", "0", "7", "5", "0">>, <<"6", "8", "8", "9", "8", "1">>,
              <<"0", "0", "2", "5", "9", "4">>, <<"6", "0", "1", "3", "1", "8">>,
              <<"6", "0", "3", "2", "5", "9">>, <<"1", "2", "3", "4", "5", "6">>,
              <<"0", "0", "7", "0", "0">>, <<"A", "A", "P", "L">>,
              <<"B", "T", "C", "-", "U", "S", "D">>, <<"X", "Y", "Z">>,
              <<"x", "y", "z">>, <<"u", "s", "b">>, <<"1", "2", "a">>,
              <<"+", "7">>, <<"1", "_", "2">>, <<"1", "_", "_", "2">>, <<" ", "7">>,
              <<"7", " ">>, <<"1", ".", "5">> }

        Prefixes == {<<>>, <<"u", "s">>, <<"U", "S">>, <<"h", "k">>, <<"H", "K">>, <<" ", "h", "k">>}

        Suffixes ==
            { <<>>, <<".", "S", "S">>, <<".", "S", "Z">>, <<".", "H", "K">>,
              <<".", "S", "H">>, <<".", "s", "h">>, <<".", "h", "k">> }
    IN  {p \o b \o s : p \in Prefixes, b \in FreeBodies \cup FixedBodies, s \in Suffixes}

InitTranslate ==
    /\ \E x \in TranslateInputs :
          tr = [pc |-> "start", code |-> x, out1 |-> Raised("none"), out2 |-> Raised("none")]
    /\ fx = IdleFx /\ nm = IdleNm /\ rg = IdleRg /\ rt = IdleRt
    /\ pc = "idle" /\ overview = IdleOverview /\ loc = IdleLoc /\ world = IdleWorld
    /\ hist = <<>>

\* translate(x)
Translate ==
    /\ tr.pc = "start"
    /\ tr' = [tr EXCEPT !.pc = "once", !.out1 = ConvertStockCode(tr.code)]
    /\ UNCHANGED <<fx, nm, rg, rt, pc, overview, loc, world, hist>>

\* translate(translate(x)), when the first translation returned a symbol
TranslateAgain ==
    /\ tr.pc = "once"
    /\ tr.out1.ok
    /\ tr' = [tr EXCEPT !.pc = "twice", !.out2 = ConvertStockCode(tr.out1.val)]
    /\ UNCHANGED <<fx, nm, rg, rt, pc, overview, loc, world, hist>>

NextTranslate == Translate \/ TranslateAgain

SpecTranslate == InitTranslate /\ [][NextTranslate]_vars


(***************************************************************************)
(* Claims about _convert_stock_code (checked under SpecTranslate).         *)
(***************************************************************************)
AllDigits(s) == Len(s) > 0 /\ \A i \in DOMAIN s : IsDigit(s[i])

HkPrefixed(x) == StartsWith(Lower(Strip(x)), <<"h", "k">>)
HkRemainder(x) == Drop(Strip(x), 2)

Translated == tr.pc \in {"once", "twice"}

\* C7 as stated: every identifier with the Hong Kong prefix marker and a
\* non-numeric remainder makes translate fail; no symbol is returned for it.
C7_HkNonNumericFails ==
    ( /\ Translated
      /\ HkPrefixed(tr.code)
      /\ HkRemainder(tr.code) # <<>>
      /\ ~AllDigits(HkRemainder(tr.code)) )
        => ~tr.out1.ok

\* a rule ahead of the Hong Kong rule takes the identifier
EarlierRuleMatches(x) ==
    \/ IsAlpha(Strip(x))
    \/ Contains(Strip(x), <<"-">>)
    \/ HasYahooSuffix(Strip(x))

\* C7 amended: for an identifier with the Hong Kong prefix marker, translate
\* fails with the ValueError of integer parsing exactly when no earlier rule
\* (purely alphabetic, hyphen, .SS/.SZ/.HK suffix) takes the identifier and
\* the remainder is not an integer literal that int() accepts.
C7_HkFailsUnlessEarlierRule ==
    (Translated /\ HkPrefixed(tr.code))
        => ( (tr.out1 = Raised("ValueError"))
               <=> (~EarlierRuleMatches(tr.code) /\ ~IntParses(HkRemainder(tr.code))) )

\* C7 witness: "hk12a" has been translated and the translation failed.
C7_Witness ==
    /\ tr.pc = "once"
    /\ tr.code = <<"h", "k", "1", "2", "a">>
    /\ tr.out1 = Raised("ValueError")

Suffixed(c, core) ==
    Drop(c, Len(core)) \in {<<>>, <<".", "S", "S">>, <<".", "S", "Z">>, <<".", "S", "H">>}

DomesticForm(c) ==
    Len(c) >= 6 /\ AllDigits(SubSeq(c, 1, 6)) /\ Suffixed(c, SubSeq(c, 1, 6))
HkForm(c) == StartsWith(Lower(c), <<"h", "k">>) /\ AllDigits(Drop(c, 2))
UsForm(c) == StartsWith(Lower(c), <<"u", "s">>) /\ IsAlpha(Drop(c, 2))
CryptoForm(c) ==
    \E i \in DOMAIN c :
        c[i] = "-" /\ IsAlpha(SubSeq(c, 1, i - 1)) /\ IsAlpha(Drop(c, i))

\* the identifier forms the translator supports
Supported(c) ==
    DomesticForm(c) \/ HkForm(c) \/ UsForm(c) \/ IsAlpha(c) \/ CryptoForm(c)

\* C8 as stated: translate is idempotent on its own output for every supported
\* identifier: translate(translate(x)) = translate(x).
C8_TranslateIdempotent ==
    (tr.pc = "twice" /\ Supported(tr.code)) => tr.out2 = tr.out1


(***************************************************************************)
(* YfinanceFetcher._fetch_raw_data under                                   *)
(*   @retry(stop=stop_after_attempt(3),                                    *)
(*          wait=wait_exponential(multiplier=1, min=2, max=30),            *)
(*          retry=retry_if_exception_type((ConnectionError, TimeoutError,  *)
(*                                         Exception)))                    *)
(* The decorator's loop is tenacity's: attempt, then iter() decides between*)
(* returning the result, sleeping before the next attempt, and stopping    *)
(* with RetryError (reraise is not set).                                   *)
(***************************************************************************)
StopAfterAttempt == 3
WaitMultiplier == 1
WaitMin == 2
WaitMax == 30

Min2(a, b) == IF a <= b THEN a ELSE b
Max2(a, b) == IF a >= b THEN a ELSE b

\* what yf.download can do in one call
DownloadResponses == {"rows", "empty", "none", "ConnectionError", "TimeoutError", "KeyError"}

\* the exception classes of the model and whether each is an Exception
ExceptionKinds ==
    {"DataFetchError", "ValueError", "ConnectionError", "TimeoutError", "KeyError", "TypeError",
     "RetryError"}
IsException(e) == e \in ExceptionKinds

\* the body of _fetch_raw_data for one attempt, given the download's response
FetchBody(stock_code, resp) ==
    LET yf_code == ConvertStockCode(stock_code)
    IN  IF ~yf_code.ok
        THEN [failed |-> TRUE, exc |-> yf_code.err]
        ELSE IF resp = "rows"
        THEN [failed |-> FALSE, exc |-> "none"]
        ELSE [failed |-> TRUE, exc |-> "DataFetchError"]

\* mutant: only the transport errors are retried
RetryOnTransportOnly(outcome) ==
    outcome.failed /\ outcome.exc \in {"ConnectionError", "TimeoutError"}

\* retry_if_exception_type((ConnectionError, TimeoutError, Exception))
ShouldRetry(outcome) ==
    outcome.failed /\ (outcome.exc \in {"ConnectionError", "TimeoutError"} \/ IsException(outcome.exc))

\* stop_after_attempt(3)
ShouldStop(attempt_number) == attempt_number >= StopAfterAttempt

\* mutant: the exponent is the attempt number
WaitExponentialFromTwo(attempt_number) ==
    Max2(Max2(0, WaitMin), Min2(WaitMultiplier * (2 ^ attempt_number), WaitMax))

\* wait_exponential(multiplier=1, min=2, max=30)
WaitExponential(attempt_number) ==
    Max2(Max2(0, WaitMin), Min2(WaitMultiplier * (2 ^ (attempt_number - 1)), WaitMax))

\* what the decorated call raises once the attempts are used up
Surfaced(outcome) == "RetryError"

FetchCodes ==
    { <<"6", "0", "0", "5", "1", "9">>, <<"h", "k", "0", "0", "7", "0", "0">>,
      <<"u", "s", "A", "A", "P", "L">>, <<"h", "k", "1", "2", "a">> }

InitFetch ==
    /\ \E c \in FetchCodes :
          fx = [IdleFx EXCEPT !.pc = "attempt", !.stock_code = c, !.attempt_number = 1]
    /\ tr = IdleTr /\ nm = IdleNm /\ rg = IdleRg /\ rt = IdleRt
    /\ pc = "idle" /\ overview = IdleOverview /\ loc = IdleLoc /\ world = IdleWorld
    /\ hist = <<>>

\* one attempt: the body runs, its result or exception is recorded
FetchAttempt ==
    /\ fx.pc = "attempt"
    /\ \E resp \in DownloadResponses :
          LET called == ConvertStockCode(fx.stock_code).ok
          IN  fx' = [fx EXCEPT !.pc = "iter",
                               !.outcome = FetchBody(fx.stock_code, resp),
                               !.log = Append(@, IF called THEN resp ELSE "not_called")]
    /\ UNCHANGED <<tr, nm, rg, rt, pc, overview, loc, world, hist>>

\* tenacity's iter() after an attempt
FetchIter ==
    /\ fx.pc = "iter"
    /\ IF ~ShouldRetry(fx.outcome)
       THEN IF fx.outcome.failed
            THEN fx' = [fx EXCEPT !.pc = "raised", !.error = fx.outcome.exc]
            ELSE fx' = [fx EXCEPT !.pc = "returned"]
       ELSE IF ShouldStop(fx.attempt_number)
       THEN fx' = [fx EXCEPT !.pc = "raised", !.error = Surfaced(fx.outcome)]
       ELSE fx' = [fx EXCEPT !.pc = "sleeping",
                             !.waits = Append(@, WaitExponential(fx.attempt_number))]
    /\ UNCHANGED <<tr, nm, rg, rt, pc, overview, loc, world, hist>>

\* the sleep ends and the next attempt starts
FetchSleep ==
    /\ fx.pc = "sleeping"
    /\ fx' = [fx EXCEPT !.pc = "attempt", !.attempt_number = @ + 1]
    /\ UNCHANGED <<tr, nm, rg, rt, pc, overview, loc, world, hist>>

NextFetch == FetchAttempt \/ FetchIter \/ FetchSleep

SpecFetch == InitFetch /\ [][NextFetch]_vars


(***************************************************************************)
(* Claims about _fetch_raw_data (checked under SpecFetch).                 *)
(***************************************************************************)
Last(q) == q[Len(q)]

EmptyOrTransport == {"empty", "none", "ConnectionError", "TimeoutError"}

\* C3: one fetch makes at most 3 attempts; an attempt that got an empty or
\* missing result is followed by the same decision as one that got a transport
\* error: a sleep and a further attempt while fewer than 3 attempts were made,
\* the terminal failure only at the 3rd attempt.
C3_EmptyRetriedLikeTransportError ==
    /\ Len(fx.log) <= 3
    /\ fx.attempt_number <= 3
    /\ (fx.pc \in {"sleeping", "raised", "returned"} /\ Last(fx.log) \in EmptyOrTransport)
          => IF Len(fx.log) < 3 THEN fx.pc = "sleeping" ELSE fx.pc = "raised"

\* C3 witness: an empty result and a transport error were both retried, and
\* the missing result of the 3rd attempt ended the fetch.
C3_Witness ==
    /\ fx.pc = "raised"
    /\ fx.log = <<"empty", "ConnectionError", "none">>
    /\ Len(fx.waits) = 2

\* C4 as stated: a fetch that fails for good surfaces a DataFetchError.
C4_SurfacesDataFetchError ==
    fx.pc = "raised" => fx.error = "DataFetchError"

\* C5 as stated: the wait after failed attempt n is min(2^n x 1, 30) seconds,
\* 2 s after attempt 1 and 4 s after attempt 2.
C5_WaitDoublesFromTwo ==
    \A n \in DOMAIN fx.waits : fx.waits[n] = Min2((2 ^ n) * 1, 30)

\* C5 amended: the wait after failed attempt n (n = 1, 2) is
\* max(2, min(2^(n-1) x 1, 30)) seconds: 2 s after attempt 1 and 2 s after
\* attempt 2.
C5_WaitIsTwoSeconds ==
    /\ Len(fx.waits) <= 2
    /\ \A n \in DOMAIN fx.waits : fx.waits[n] = 2

\* C5 witness: both waits of a fetch have been taken.
C5_Witness ==
    /\ fx.pc = "sleeping"
    /\ fx.attempt_number = 2
    /\ fx.waits = <<2, 2>>


(***************************************************************************)
(* YfinanceFetcher._normalize_data.  A frame is a sequence of column names *)
(* and, under each name, the column's values (one per row).  Prices and    *)
(* volumes are integers; pct_chg is held in hundredths of a percent, which *)
(* is what round(2) keeps.                                                 *)
(***************************************************************************)
\* the canonical column labels, and "index", the label reset_index gives a
\* nameless index
Col ==
    [date |-> <<"d", "a", "t", "e">>, open |-> <<"o", "p", "e", "n">>,
     high |-> <<"h", "i", "g", "h">>, low |-> <<"l", "o", "w">>,
     close |-> <<"c", "l", "o", "s", "e">>, volume |-> <<"v", "o", "l", "u", "m", "e">>,
     amount |-> <<"a", "m", "o", "u", "n", "t">>,
     pct_chg |-> <<"p", "c", "t", "_", "c", "h", "g">>,
     code |-> <<"c", "o", "d", "e">>, index |-> <<"i", "n", "d", "e", "x">>]

\* the column labels yf.download can hand over (capitalised, as Yahoo does)
YCol ==
    [Date |-> <<"D", "a", "t", "e">>, Open |-> <<"O", "p", "e", "n">>,
     High |-> <<"H", "i", "g", "h">>, Low |-> <<"L", "o", "w">>,
     Close |-> <<"C", "l", "o", "s", "e">>, Volume |-> <<"V", "o", "l", "u", "m", "e">>,
     Amount |-> <<"A", "m", "o", "u", "n", "t">>,
     Dividends |-> <<"D", "i", "v", "i", "d", "e", "n", "d", "s">>]

\* base.STANDARD_COLUMNS, the canonical schema without the code column
STANDARD_COLUMNS ==
    <<Col.date, Col.open, Col.high, Col.low, Col.close, Col.volume, Col.amount, Col.pct_chg>>

HasColumn(f, name) == name \in Range(f.cols)

\* df[name] = values
SetColumn(f, name, values) ==
    IF HasColumn(f, name)
    THEN [f EXCEPT !.col = [c \in Range(f.cols) |-> IF c = name THEN values ELSE f.col[c]]]
    ELSE [cols |-> Append(f.cols, name),
          col |-> [c \in Range(f.cols) \cup {name} |-> IF c = name THEN values ELSE f.col[c]]]

\* number of rows of the raw frame
NRows(raw) == Len(raw.index)

\* df.reset_index(): the index becomes the first column, under its name, or
\* under "index" when it has none
ResetIndex(raw) ==
    LET name == IF raw.index_name = <<>> THEN Col.index ELSE raw.index_name
    IN  [cols |-> <<name>> \o raw.cols,
         col |-> [c \in Range(raw.cols) \cup {name} |->
                     IF c = name THEN raw.index ELSE raw.col[c]]]

\* df.columns = [c.lower() for c in df.columns]
LowerColumns(f) ==
    [cols |-> [i \in DOMAIN f.cols |-> Lower(f.cols[i])],
     col |-> [c \in {Lower(x) : x \in Range(f.cols)} |->
                 f.col[CHOOSE x \in Range(f.cols) : Lower(x) = c]]]

\* num / den rounded to the nearest integer
RoundDiv(num, den) ==
    IF num >= 0 THEN (2 * num + den) \div (2 * den)
    ELSE 0 - ((2 * (0 - num) + den) \div (2 * den))

\* (close.pct_change() * 100).fillna(0).round(2), in hundredths of a percent
PctChange(close) ==
    [i \in DOMAIN close |->
        IF i = 1 THEN 0 ELSE RoundDiv((close[i] - close[i - 1]) * 10000, close[i - 1])]

Broadcast(v, n) == [i \in 1..n |-> v]

\* pd.to_datetime on one cell
ToDatetime(v) == <<"ts", v>>

RECURSIVE FillMissing(_, _, _)
\* for col in final_cols: if col not in df.columns: df[col] = 0.0
FillMissing(f, names, n) ==
    IF names = <<>> THEN f
    ELSE FillMissing(
            IF HasColumn(f, Head(names)) THEN f ELSE SetColumn(f, Head(names), Broadcast(0, n)),
            Tail(names), n)

\* mutant: the frame is returned whole, without the selection of final_cols
SelectNothing(f, names) == f

\* df[final_cols]
SelectColumns(f, names) ==
    [cols |-> names, col |-> [c \in Range(names) |-> f.col[c]]]

NormalizeData(raw, stock_code) ==
    LET n == NRows(raw)
        f1 == LowerColumns(ResetIndex(raw))
        f2 == IF HasColumn(f1, Col.close)
              THEN SetColumn(f1, Col.pct_chg, PctChange(f1.col[Col.close]))
              ELSE f1
        f3 == IF HasColumn(f2, Col.volume) /\ HasColumn(f2, Col.close)
              THEN SetColumn(f2, Col.amount,
                             [i \in 1..n |-> f2.col[Col.volume][i] * f2.col[Col.close][i]])
              ELSE SetColumn(f2, Col.amount, Broadcast(0, n))
        f4 == SetColumn(f3, Col.code, Broadcast(stock_code, n))
        f5 == IF HasColumn(f4, Col.date)
              THEN SetColumn(f4, Col.date, [i \in 1..n |-> ToDatetime(f4.col[Col.date][i])])
              ELSE f4
        final_cols == <<Col.code>> \o STANDARD_COLUMNS
    IN  SelectColumns(FillMissing(f5, final_cols, n), final_cols)

(***************************************************************************)
(* Specification SpecNormalize: _normalize_data applied to a raw frame.    *)
(***************************************************************************)
\* the raw frames tried: a named or nameless index, any set of the labels as
\* columns, up to MaxBars rows of closes, and fixed values elsewhere
RawFrames ==
    LET RawLabels ==
            <<YCol.Open, YCol.High, YCol.Low, YCol.Close, YCol.Volume, YCol.Amount,
              YCol.Dividends>>
        ClosePrices == {9, 10, 11}
        RECURSIVE Pick(_, _)
        Pick(labels, chosen) ==
            IF labels = <<>> THEN <<>>
            ELSE (IF Head(labels) \in chosen THEN <<Head(labels)>> ELSE <<>>)
                    \o Pick(Tail(labels), chosen)
        RawFrame(index_name, chosen, close) ==
            [index_name |-> index_name,
             index |-> [i \in 1..Len(close) |-> i],
             cols |-> Pick(RawLabels, chosen),
             col |-> [c \in chosen |->
                        IF c = YCol.Close THEN close
                        ELSE IF c = YCol.Volume THEN [i \in 1..Len(close) |-> 100 * i]
                        ELSE IF c = YCol.Amount THEN [i \in 1..Len(close) |-> 7]
                        ELSE [i \in 1..Len(close) |-> 10]]]
    IN  { RawFrame(ix, chosen, close) :
            ix \in {<<>>, YCol.Date},
            chosen \in SUBSET Range(RawLabels),
            close \in UNION {[1..n -> ClosePrices] : n \in 0..MaxBars} }

InitNormalize ==
    /\ \E raw \in RawFrames :
          nm = [IdleNm EXCEPT !.pc = "raw", !.raw = raw,
                              !.stock_code = <<"6", "0", "0", "5", "1", "9">>]
    /\ tr = IdleTr /\ fx = IdleFx /\ rg = IdleRg /\ rt = IdleRt
    /\ pc = "idle" /\ overview = IdleOverview /\ loc = IdleLoc /\ world = IdleWorld
    /\ hist = <<>>

Normalize ==
    /\ nm.pc = "raw"
    /\ nm' = [nm EXCEPT !.pc = "normalized", !.out = NormalizeData(nm.raw, nm.stock_code)]
    /\ UNCHANGED <<tr, fx, rg, rt, pc, overview, loc, world, hist>>

NextNormalize == Normalize

SpecNormalize == InitNormalize /\ [][NextNormalize]_vars

(***************************************************************************)
(* Claim about _normalize_data (checked under SpecNormalize).              *)
(***************************************************************************)
CanonicalColumns ==
    {Col.code, Col.date, Col.open, Col.high, Col.low, Col.close, Col.volume, Col.amount, Col.pct_chg}

\* what the raw source provided, under canonical (lower-case) names
Provided(raw) ==
    {Lower(c) : c \in Range(raw.cols)}
        \cup (IF raw.index_name = <<>> THEN {} ELSE {Lower(raw.index_name)})

\* what normalisation derives from the columns provided
Derivable(raw) ==
    {Col.code}
        \cup (IF Col.close \in Provided(raw) THEN {Col.pct_chg} ELSE {})
        \cup (IF {Col.close, Col.volume} \subseteq Provided(raw) THEN {Col.amount} ELSE {})

\* C9: the normalised frame has exactly the canonical columns, each once, and
\* every canonical column neither provided nor derivable holds 0 in every row.
C9_ExactlyCanonicalColumns ==
    nm.pc = "normalized" =>
        /\ Range(nm.out.cols) = CanonicalColumns
        /\ Len(nm.out.cols) = Cardinality(CanonicalColumns)
        /\ DOMAIN nm.out.col = CanonicalColumns
        /\ \A c \in CanonicalColumns \ (Provided(nm.raw) \cup Derivable(nm.raw)) :
              nm.out.col[c] = Broadcast(0, NRows(nm.raw))

\* C9 witness: a frame of two bars with a nameless index, without Open and
\* Volume and with a Dividends column has been normalised.
C9_Witness ==
    /\ nm.pc = "normalized"
    /\ nm.raw.index_name = <<>>
    /\ Range(nm.raw.cols) = {YCol.High, YCol.Low, YCol.Close, YCol.Dividends}
    /\ nm.raw.col[YCol.Close] = <<10, 11>>
    /\ nm.out.col[Col.open] = <<0, 0>>
    /\ nm.out.col[Col.date] = <<0, 0>>
    /\ nm.out.col[Col.amount] = <<0, 0>>
    /\ nm.out.col[Col.pct_chg] = <<0, 1000>>


(***************************************************************************)
(* The fetcher registry.  YfinanceFetcher declares name and priority; the  *)
(* registry that orders the fetchers and walks the fallback chain is       *)
(* described in the specification of the pipeline (FetcherRegistry): the   *)
(* fetchers sorted by ascending priority number, registration order among  *)
(* equals, each invoked in turn until one succeeds.                        *)
(***************************************************************************)
\* YfinanceFetcher.priority
YfinancePriority == 4

\* YfinanceFetcher.name
YfinanceName == "YfinanceFetcher"

\* mutant: the fallback fetcher declares the most trusted priority
YfinanceMostTrusted == [name |-> YfinanceName, priority |-> 0]

Yfinance == [name |-> YfinanceName, priority |-> YfinancePriority]

\* x put into the sorted q behind every entry of the same or a smaller priority
RECURSIVE InsertByPriority(_, _)
InsertByPriority(q, x) ==
    IF q = <<>> THEN <<x>>
    ELSE IF Head(q).priority <= x.priority
    THEN <<Head(q)>> \o InsertByPriority(Tail(q), x)
    ELSE <<x>> \o q

\* sorted(fetchers, key=priority), a stable sort
RECURSIVE SortByPriority(_)
SortByPriority(fs) ==
    IF fs = <<>> THEN <<>>
    ELSE InsertByPriority(SortByPriority(SubSeq(fs, 1, Len(fs) - 1)), fs[Len(fs)])

\* the registrations: up to MaxDomestic domestic fetchers of any priority and
\* the Yahoo fetcher, registered at any position
Registrations ==
    LET DomesticNames == <<"Fetcher1", "Fetcher2", "Fetcher3", "Fetcher4", "Fetcher5">>
        DomesticPriorities == 0..5
        InsertAt(q, k, x) == SubSeq(q, 1, k - 1) \o <<x>> \o SubSeq(q, k, Len(q))
    IN  UNION { { InsertAt([i \in 1..n |-> [name |-> DomesticNames[i], priority |-> prio[i]]],
                           k, Yfinance) :
                    prio \in [1..n -> DomesticPriorities], k \in 1..(n + 1) } :
                n \in 0..MaxDomestic }

InitRegistry ==
    /\ \E reg \in Registrations :
          rg = [IdleRg EXCEPT !.pc = "fetching", !.fetchers = reg, !.next = 1]
    /\ tr = IdleTr /\ fx = IdleFx /\ nm = IdleNm /\ rt = IdleRt
    /\ pc = "idle" /\ overview = IdleOverview /\ loc = IdleLoc /\ world = IdleWorld
    /\ hist = <<>>

\* the next fetcher of the chain is invoked and succeeds: its result is returned
RegistryInvokeSuccess ==
    /\ rg.pc = "fetching"
    /\ rg.next <= Len(rg.fetchers)
    /\ LET f == SortByPriority(rg.fetchers)[rg.next]
       IN  rg' = [rg EXCEPT !.pc = "returned", !.invoked = Append(@, f.name),
                            !.result = f.name]
    /\ UNCHANGED <<tr, fx, nm, rt, pc, overview, loc, world, hist>>

\* the next fetcher of the chain is invoked and fails with DataFetchError
RegistryInvokeFailure ==
    /\ rg.pc = "fetching"
    /\ rg.next <= Len(rg.fetchers)
    /\ LET f == SortByPriority(rg.fetchers)[rg.next]
       IN  rg' = [rg EXCEPT !.invoked = Append(@, f.name), !.failed = @ \cup {f.name},
                            !.next = @ + 1]
    /\ UNCHANGED <<tr, fx, nm, rt, pc, overview, loc, world, hist>>

\* every fetcher has failed
RegistryExhausted ==
    /\ rg.pc = "fetching"
    /\ rg.next > Len(rg.fetchers)
    /\ rg' = [rg EXCEPT !.pc = "raised", !.result = "AllProvidersFailedError"]
    /\ UNCHANGED <<tr, fx, nm, rt, pc, overview, loc, world, hist>>

NextRegistry == RegistryInvokeSuccess \/ RegistryInvokeFailure \/ RegistryExhausted

SpecRegistry == InitRegistry /\ [][NextRegistry]_vars

(***************************************************************************)
(* Claim about the fallback chain (checked under SpecRegistry).            *)
(***************************************************************************)
\* position of the fetcher called name in the registration order
RegisteredAt(name) == CHOOSE i \in DOMAIN rg.fetchers : rg.fetchers[i].name = name

PriorityOf(name) == rg.fetchers[RegisteredAt(name)].priority

\* a is tried before b: smaller priority number, registration order among equals
TriedBefore(a, b) ==
    \/ PriorityOf(a) < PriorityOf(b)
    \/ PriorityOf(a) = PriorityOf(b) /\ RegisteredAt(a) < RegisteredAt(b)

RegisteredNames == {rg.fetchers[i].name : i \in DOMAIN rg.fetchers}

\* C6: the fetchers are invoked one at a time in ascending priority order
\* (registration order among equals) without skipping any; all but the last
\* invoked one have failed; after a success no further fetcher is invoked; the
\* fallback fetcher is invoked only when every fetcher of a priority number
\* below 4 has failed.
C6_PriorityOrderedFallback ==
    /\ \A i, j \in DOMAIN rg.invoked : i < j => TriedBefore(rg.invoked[i], rg.invoked[j])
    /\ \A i \in DOMAIN rg.invoked : \A n \in RegisteredNames :
          TriedBefore(n, rg.invoked[i]) => \E j \in 1..(i - 1) : rg.invoked[j] = n
    /\ \A i \in DOMAIN rg.invoked : i < Len(rg.invoked) => rg.invoked[i] \in rg.failed
    /\ rg.pc = "returned" => rg.result = Last(rg.invoked) /\ rg.result \notin rg.failed
    /\ rg.pc = "raised" => rg.failed = RegisteredNames
    /\ (\E i \in DOMAIN rg.invoked : rg.invoked[i] = YfinanceName)
          => \A n \in RegisteredNames : PriorityOf(n) < 4 => n \in rg.failed

\* C6 witness: three domestic fetchers, two of them of equal priority and
\* registered after the fallback fetcher, failed in order, and the fallback
\* fetcher's result was returned.
C6_Witness ==
    /\ rg.pc = "returned"
    /\ rg.result = YfinanceName
    /\ rg.fetchers[1] = Yfinance
    /\ rg.invoked = <<"Fetcher3", "Fetcher1", "Fetcher2", YfinanceName>>
    /\ PriorityOf("Fetcher1") = 2 /\ PriorityOf("Fetcher2") = 2 /\ PriorityOf("Fetcher3") = 1


(***************************************************************************)
(* MarketAnalyzer._call_akshare_with_retry(fn, name, attempts).  The frame *)
(* rt holds the helper's locals; fn is the endpoint called rt.name, which  *)
(* either raises or hands over world[rt.name].                             *)
(***************************************************************************)
\* the exceptions an endpoint call raises
FnErrors == {"ConnectionError", "ValueError"}

\* mutant: the loop stops one attempt short, range(1, attempts)
LoopRunsShort(attempt, attempts) == attempt < attempts

\* for attempt in range(1, attempts + 1)
LoopRuns(attempt, attempts) == attempt <= attempts

\* except Exception as e
RetryCatches(exc) == IsException(exc)

\* mutant: the helper sleeps after every failed attempt
SleepsAlways(attempt, attempts) == TRUE

\* if attempt < attempts
SleepsBetween(attempt, attempts) == attempt < attempts

\* min(2 ** attempt, 5)
SleepSeconds(attempt) == Min2(2 ^ attempt, 5)

\* the helper is entered
RetryFrame(name, attempts) ==
    [IdleRt EXCEPT !.pc = "call", !.name = name, !.attempts = attempts, !.attempt = 1]

\* return fn(): the call does not raise
RetryCallReturns ==
    /\ rt.pc = "call"
    /\ LoopRuns(rt.attempt, rt.attempts)
    /\ rt' = [rt EXCEPT !.pc = "returned", !.calls = @ + 1, !.result = world[rt.name]]
    /\ UNCHANGED <<tr, fx, nm, rg, pc, overview, loc, world, hist>>

\* fn() raises: the error is kept and logged, and the helper sleeps or goes on
RetryCallRaises ==
    /\ rt.pc = "call"
    /\ LoopRuns(rt.attempt, rt.attempts)
    /\ \E e \in FnErrors :
          IF ~RetryCatches(e)
          THEN rt' = [rt EXCEPT !.pc = "raised", !.calls = @ + 1, !.last_error = e]
          ELSE IF SleepsBetween(rt.attempt, rt.attempts)
          THEN rt' = [rt EXCEPT !.pc = "sleep", !.calls = @ + 1, !.last_error = e]
          ELSE rt' = [rt EXCEPT !.attempt = @ + 1, !.calls = @ + 1, !.last_error = e]
    /\ UNCHANGED <<tr, fx, nm, rg, pc, overview, loc, world, hist>>

\* time.sleep(min(2 ** attempt, 5)), then the next attempt
RetrySleep ==
    /\ rt.pc = "sleep"
    /\ rt' = [rt EXCEPT !.pc = "call", !.sleeps = Append(@, SleepSeconds(rt.attempt)),
                        !.attempt = @ + 1]
    /\ UNCHANGED <<tr, fx, nm, rg, pc, overview, loc, world, hist>>

\* the loop is over: the last error is logged and None is returned
RetryExhausted ==
    /\ rt.pc = "call"
    /\ ~LoopRuns(rt.attempt, rt.attempts)
    /\ rt' = [rt EXCEPT !.pc = "returned", !.result = NoneFrame]
    /\ UNCHANGED <<tr, fx, nm, rg, pc, overview, loc, world, hist>>

(***************************************************************************)
(* Specification SpecRetry: the helper called with any attempts on an fn   *)
(* that may raise at every call.                                           *)
(***************************************************************************)
FnValues ==
    { NoneFrame, [none |-> FALSE, rows |-> <<>>], [none |-> FALSE, rows |-> <<1>>],
      [none |-> FALSE, rows |-> <<1, 2>>] }

InitRetry ==
    /\ \E attempts \in 0..MaxAttempts : rt = RetryFrame("fn", attempts)
    /\ \E v \in FnValues : world = [IdleWorld EXCEPT !.fn = v]
    /\ tr = IdleTr /\ fx = IdleFx /\ nm = IdleNm /\ rg = IdleRg
    /\ pc = "idle" /\ overview = IdleOverview /\ loc = IdleLoc
    /\ hist = <<>>

NextRetry == RetryCallReturns \/ RetryCallRaises \/ RetrySleep \/ RetryExhausted

SpecRetry == InitRetry /\ [][NextRetry]_vars

(***************************************************************************)
(* Claim about the retry helper (checked under SpecRetry).                 *)
(***************************************************************************)
\* C2: fn is called at most attempts times; the helper returns fn's value at
\* the first call that does not raise, and that call is the last one; when
\* every call raised, it returns None after exactly attempts calls; no
\* exception leaves the helper.
C2_BoundedRetryReturnsNone ==
    /\ rt.calls <= rt.attempts
    /\ rt.pc # "raised"
    /\ rt.pc = "returned" =>
          \/ rt.result = world.fn /\ rt.calls = rt.attempt
          \/ rt.result = NoneFrame /\ rt.calls = rt.attempts /\ rt.attempt = rt.attempts + 1

\* C2 witness: with attempts = 3 every call raised, and the helper returned
\* None after the 3rd call although fn had a table to hand over.
C2_Witness ==
    /\ rt.pc = "returned"
    /\ rt.attempts = 3
    /\ rt.calls = 3
    /\ rt.last_error = "ConnectionError"
    /\ rt.result = NoneFrame
    /\ world.fn = [none |-> FALSE, rows |-> <<1, 2>>]

\* the helper has returned because its attempts were used up
Exhausted == rt.pc = "returned" /\ rt.attempt > rt.attempts

\* C13: the helper sleeps only between tries: the k-th sleep follows failed
\* attempt k < attempts and lasts min(2^k, 5) seconds; attempt k + 1 is made
\* after exactly k sleeps; there is no sleep after a successful attempt nor
\* after the final one, so a run whose attempts >= 1 tries all fail sleeps
\* exactly attempts - 1 times (once, for 2 seconds, with attempts = 2).
C13_SleepsOnlyBetweenTries ==
    /\ \A k \in DOMAIN rt.sleeps :
          /\ k < rt.attempts
          /\ rt.sleeps[k] = IF 2 ^ k < 5 THEN 2 ^ k ELSE 5
    /\ rt.pc = "call" /\ rt.attempt <= rt.attempts => Len(rt.sleeps) = rt.attempt - 1
    /\ rt.pc = "sleep" => Len(rt.sleeps) = rt.calls - 1 /\ rt.calls < rt.attempts
    /\ rt.pc = "returned" /\ ~Exhausted => Len(rt.sleeps) = rt.calls - 1
    /\ Exhausted /\ rt.attempts >= 1 => Len(rt.sleeps) = rt.attempts - 1
    /\ Exhausted /\ rt.attempts = 2 => rt.sleeps = <<2>>

\* C13 witness: all 4 of 4 attempts failed and the helper slept 2, 4 and 5
\* seconds, after the 1st, 2nd and 3rd of them.
C13_Witness ==
    /\ Exhausted
    /\ rt.attempts = 4 /\ rt.calls = 4
    /\ rt.sleeps = <<2, 4, 5>>


(***************************************************************************)
(* MarketAnalyzer: the five phases of get_market_overview.  Numbers stand  *)
(* for floats: index points are integers, percentages (amplitude, change)  *)
(* are hundredths of a percent, turnover is in yuan.  The column labels    *)
(* are the Chinese labels of the source under ASCII names:                 *)
(*   code = 代码, name = 名称, change = 涨跌幅, amount = 成交额,           *)
(*   sector = 板块名称, prev_close = 昨收, high = 最高, low = 最低.        *)
(* A MarketIndex keeps code, name, prev_close, high, low and amplitude;    *)
(* the fields that are only copied (current, change, open, volume, amount) *)
(* are left out.                                                           *)
(***************************************************************************)
MAIN_INDICES == <<"sh000001", "sz399001", "sz399006", "sh000688", "sh000016", "sh000300">>
HK_INDICES == {"HSI", "HSCEI", "HSTECH"}
US_INDICES == <<".DJI", ".IXIC", ".INX">>
DefaultAttempts == 2
LimitPct == 990
TopN == 5
YuanPerYi == 100000000

\* df is not None and not df.empty
Usable(frame) == ~frame.none /\ Len(frame.rows) > 0

\* mutant: only KeyError is caught at the phase boundary
PhaseCatchesKeyErrorOnly(exc) == exc = "KeyError"

\* except Exception as e, at the end of every phase
PhaseCatches(exc) == IsException(exc)

\* where control goes when a phase ends with exc ("none": no exception)
AfterPhase(exc, next) == IF exc = "none" \/ PhaseCatches(exc) THEN next ELSE "raised"

\* MarketIndex(...) with the amplitude left at its default
MarketIndex(code, name, row) ==
    [code |-> code, name |-> name, prev_close |-> row.prev_close, high |-> row.high,
     low |-> row.low, amplitude |-> 0]

\* index.amplitude = (index.high - index.low) / index.prev_close * 100
WithAmplitude(index) ==
    IF index.prev_close > 0
    THEN [index EXCEPT !.amplitude = ((index.high - index.low) * 10000) \div index.prev_close]
    ELSE index

\* the rows of the table whose code cell is code, else those that contain it
MatchingRows(frame, code) ==
    LET exact == SelectSeq(frame.rows, LAMBDA r : r.code = code /\ r.exact)
    IN  IF exact # <<>> THEN exact
        ELSE SelectSeq(frame.rows, LAMBDA r : r.code = code)

RECURSIVE MainIndicesLoop(_, _, _)
\* for code, name in self.MAIN_INDICES.items(): ...
MainIndicesLoop(frame, codes, indices) ==
    IF codes = <<>> THEN [indices |-> indices, exc |-> "none"]
    ELSE IF ~frame.has_code THEN [indices |-> indices, exc |-> "KeyError"]
    ELSE LET row == MatchingRows(frame, Head(codes))
         IN  IF row = <<>> THEN MainIndicesLoop(frame, Tail(codes), indices)
             ELSE IF row[1].bad THEN [indices |-> indices, exc |-> "ValueError"]
             ELSE MainIndicesLoop(frame, Tail(codes),
                      Append(indices, WithAmplitude(MarketIndex(Head(codes), Head(codes), row[1]))))

\* the body of _get_main_indices once the table is there
GetMainIndices(frame) ==
    IF Usable(frame) THEN MainIndicesLoop(frame, MAIN_INDICES, <<>>)
    ELSE [indices |-> <<>>, exc |-> "none"]

RECURSIVE HkIndicesLoop(_, _, _)
\* for _, row in df.iterrows(): ...
HkIndicesLoop(frame, rows, indices) ==
    IF rows = <<>> THEN [indices |-> indices, exc |-> "none"]
    ELSE IF ~frame.has_name THEN [indices |-> indices, exc |-> "KeyError"]
    ELSE IF Head(rows).name \notin HK_INDICES THEN HkIndicesLoop(frame, Tail(rows), indices)
    ELSE IF Head(rows).bad THEN [indices |-> indices, exc |-> "ValueError"]
    ELSE HkIndicesLoop(frame, Tail(rows),
             Append(indices, MarketIndex(Head(rows).code, Head(rows).name, Head(rows))))

\* the body of _get_hk_indices once the table is there
GetHkIndices(frame) ==
    IF Usable(frame) THEN HkIndicesLoop(frame, frame.rows, <<>>)
    ELSE [indices |-> <<>>, exc |-> "none"]

\* the cells of a table column: a number, a text that is no number, or NaN
Num(v) == [kind |-> "number", v |-> v]
Text == [kind |-> "text", v |-> 0]
NaN == [kind |-> "nan", v |-> 0]

\* pd.to_numeric(cell, errors='coerce'): a number, or NaN for what is none
ToNumeric(cell) == IF cell.kind = "number" THEN cell ELSE NaN

\* cell <op> k on a coerced cell; NaN compares False
Compare(cell, op, k) ==
    /\ cell # NaN
    /\ CASE op = ">" -> cell.v > k
         [] op = "<" -> cell.v < k
         [] op = "==" -> cell.v = k
         [] op = ">=" -> cell.v >= k
         [] op = "<=" -> cell.v <= k

\* len(df[df[col] <op> k])
CountRows(cells, op, k) ==
    Cardinality({i \in DOMAIN cells : Compare(ToNumeric(cells[i]), op, k)})

RECURSIVE SumSkipNaN(_)
\* Series.sum(), NaN skipped
SumSkipNaN(cells) ==
    IF cells = <<>> THEN 0
    ELSE (IF ToNumeric(Head(cells)) = NaN THEN 0 ELSE ToNumeric(Head(cells)).v)
            + SumSkipNaN(Tail(cells))

Column(frame, field) == [i \in DOMAIN frame.rows |-> frame.rows[i][field]]

\* mutant: a limit-up row is no up row and a limit-down row no down row
WithBreadthExclusive(ov, cells) ==
    [ov EXCEPT !.up_count = CountRows(cells, ">", 0) - CountRows(cells, ">=", LimitPct),
               !.down_count = CountRows(cells, "<", 0) - CountRows(cells, "<=", 0 - LimitPct),
               !.flat_count = CountRows(cells, "==", 0),
               !.limit_up_count = CountRows(cells, ">=", LimitPct),
               !.limit_down_count = CountRows(cells, "<=", 0 - LimitPct)]

\* the counters of _get_market_statistics
WithBreadth(ov, cells) ==
    [ov EXCEPT !.up_count = CountRows(cells, ">", 0),
               !.down_count = CountRows(cells, "<", 0),
               !.flat_count = CountRows(cells, "==", 0),
               !.limit_up_count = CountRows(cells, ">=", LimitPct),
               !.limit_down_count = CountRows(cells, "<=", 0 - LimitPct)]

\* the body of _get_market_statistics once the table is there; a column is
\* "numeric" (to_numeric coerces it), "absent", or "unconvertible" (to_numeric
\* raises TypeError: the cells are no scalars, or the label is duplicated)
GetMarketStatistics(ov, frame) ==
    IF ~Usable(frame) THEN [overview |-> ov, exc |-> "none"]
    ELSE IF frame.change = "unconvertible" THEN [overview |-> ov, exc |-> "TypeError"]
    ELSE LET ov1 == IF frame.change = "numeric"
                    THEN WithBreadth(ov, Column(frame, "change"))
                    ELSE ov
         IN  IF frame.amount = "unconvertible" THEN [overview |-> ov1, exc |-> "TypeError"]
             ELSE IF frame.amount = "numeric"
             THEN [overview |->
                      [ov1 EXCEPT !.total_amount =
                                      SumSkipNaN(Column(frame, "amount")) \div YuanPerYi],
                   exc |-> "none"]
             ELSE [overview |-> ov1, exc |-> "none"]

RECURSIVE InsertRanked(_, _, _)
\* row put into the ranked rows ahead of the first row it outranks; sign is 1
\* to rank the largest change first and -1 to rank the smallest first
InsertRanked(ranked, row, sign) ==
    IF ranked = <<>> THEN <<row>>
    ELSE IF sign * row.change.v > sign * Head(ranked).change.v THEN <<row>> \o ranked
    ELSE <<Head(ranked)>> \o InsertRanked(Tail(ranked), row, sign)

RECURSIVE Ranked(_, _)
\* a stable sort of the rows
Ranked(rows, sign) ==
    IF rows = <<>> THEN <<>>
    ELSE InsertRanked(Ranked(SubSeq(rows, 1, Len(rows) - 1), sign), rows[Len(rows)], sign)

FirstN(q, n) == SubSeq(q, 1, Min2(n, Len(q)))

\* df.nlargest(5, col) / df.nsmallest(5, col), ties in table order
NLargest(rows) == FirstN(Ranked(rows, 1), TopN)
NSmallest(rows) == FirstN(Ranked(rows, 0 - 1), TopN)

SectorList(rows) ==
    [i \in DOMAIN rows |-> [name |-> rows[i].sector, change_pct |-> rows[i].change.v]]

\* the body of _get_sector_rankings once the table is there
GetSectorRankings(ov, frame) ==
    IF ~Usable(frame) \/ ~frame.has_change THEN [overview |-> ov, exc |-> "none"]
    ELSE LET rows == SelectSeq(frame.rows, LAMBDA r : ToNumeric(r.change) # NaN)
         IN  IF rows # <<>> /\ ~frame.has_sector
             THEN [overview |-> ov, exc |-> "KeyError"]
             ELSE [overview |-> [ov EXCEPT !.top_sectors = SectorList(NLargest(rows)),
                                           !.bottom_sectors = SectorList(NSmallest(rows))],
                   exc |-> "none"]

\* one round of the loop of _get_us_indices: the call, the first row, the
\* MarketIndex; whatever is raised is caught and the code is skipped
UsIndex(code, raises, frame, indices) ==
    IF raises \/ ~Usable(frame) \/ frame.rows[1].bad THEN indices
    ELSE Append(indices, MarketIndex(code, code, frame.rows[1]))

\* one completed phase, for the record
Ended(phase, frame, exc) == [phase |-> phase, usable |-> Usable(frame), exc |-> exc]


(***************************************************************************)
(* The steps of get_market_overview.  pc "pK" is the call of phase K,      *)
(* "pK_call" the phase waiting for the retry helper, "done" the return of  *)
(* the overview and "raised" an exception leaving get_market_overview.     *)
(***************************************************************************)
\* the helper has handed control back to the phase that called it
HelperDone(at) == pc = at \o "_call" /\ rt.pc \in {"returned", "raised"}

\* overview.indices = self._get_main_indices()
P1Call ==
    /\ pc = "p1"
    /\ rt' = RetryFrame("index_spot", 2)
    /\ pc' = "p1_call"
    /\ UNCHANGED <<tr, fx, nm, rg, overview, loc, world, hist>>

P1Process ==
    /\ HelperDone("p1")
    /\ LET got == IF rt.pc = "raised" THEN [indices |-> <<>>, exc |-> rt.last_error]
                  ELSE GetMainIndices(rt.result)
       IN  /\ overview' = [overview EXCEPT !.indices = got.indices]
           /\ hist' = Append(hist, Ended(1, rt.result, got.exc))
           /\ pc' = AfterPhase(got.exc, "p2")
    /\ rt' = IdleRt
    /\ UNCHANGED <<tr, fx, nm, rg, loc, world>>

\* overview.hk_indices = self._get_hk_indices()
P2Call ==
    /\ pc = "p2"
    /\ rt' = RetryFrame("hk_spot", DefaultAttempts)
    /\ pc' = "p2_call"
    /\ UNCHANGED <<tr, fx, nm, rg, overview, loc, world, hist>>

P2Process ==
    /\ HelperDone("p2")
    /\ LET got == IF rt.pc = "raised" THEN [indices |-> <<>>, exc |-> rt.last_error]
                  ELSE GetHkIndices(rt.result)
       IN  /\ overview' = [overview EXCEPT !.hk_indices = got.indices]
           /\ hist' = Append(hist, Ended(2, rt.result, got.exc))
           /\ pc' = AfterPhase(got.exc, "p3")
    /\ rt' = IdleRt
    /\ UNCHANGED <<tr, fx, nm, rg, loc, world>>

\* overview.us_indices = self._get_us_indices(): the loop is entered
P3Start ==
    /\ pc = "p3"
    /\ loc' = [i |-> 1, indices |-> <<>>]
    /\ pc' = "p3_loop"
    /\ UNCHANGED <<tr, fx, nm, rg, rt, overview, world, hist>>

\* one code of US_INDICES: ak.index_us_stock_sina raises or hands over a table
P3Fetch ==
    /\ pc = "p3_loop"
    /\ loc.i <= Len(US_INDICES)
    /\ \E raises \in BOOLEAN :
          loc' = [i |-> loc.i + 1,
                  indices |-> UsIndex(US_INDICES[loc.i], raises, world.us[loc.i], loc.indices)]
    /\ UNCHANGED <<tr, fx, nm, rg, rt, pc, overview, world, hist>>

\* return indices
P3Return ==
    /\ pc = "p3_loop"
    /\ loc.i > Len(US_INDICES)
    /\ overview' = [overview EXCEPT !.us_indices = loc.indices]
    /\ hist' = Append(hist, [phase |-> 3, usable |-> loc.indices # <<>>, exc |-> "none"])
    /\ loc' = IdleLoc
    /\ pc' = AfterPhase("none", "p4")
    /\ UNCHANGED <<tr, fx, nm, rg, rt, world>>

\* self._get_market_statistics(overview)
P4Call ==
    /\ pc = "p4"
    /\ rt' = RetryFrame("a_spot", 2)
    /\ pc' = "p4_call"
    /\ UNCHANGED <<tr, fx, nm, rg, overview, loc, world, hist>>

P4Process ==
    /\ HelperDone("p4")
    /\ LET got == IF rt.pc = "raised" THEN [overview |-> overview, exc |-> rt.last_error]
                  ELSE GetMarketStatistics(overview, rt.result)
       IN  /\ overview' = got.overview
           /\ hist' = Append(hist, Ended(4, rt.result, got.exc))
           /\ pc' = AfterPhase(got.exc, "p5")
    /\ rt' = IdleRt
    /\ UNCHANGED <<tr, fx, nm, rg, loc, world>>

\* self._get_sector_rankings(overview), then return overview
P5Call ==
    /\ pc = "p5"
    /\ rt' = RetryFrame("board", 2)
    /\ pc' = "p5_call"
    /\ UNCHANGED <<tr, fx, nm, rg, overview, loc, world, hist>>

P5Process ==
    /\ HelperDone("p5")
    /\ LET got == IF rt.pc = "raised" THEN [overview |-> overview, exc |-> rt.last_error]
                  ELSE GetSectorRankings(overview, rt.result)
       IN  /\ overview' = got.overview
           /\ hist' = Append(hist, Ended(5, rt.result, got.exc))
           /\ pc' = AfterPhase(got.exc, "done")
    /\ rt' = IdleRt
    /\ UNCHANGED <<tr, fx, nm, rg, loc, world>>

(***************************************************************************)
(* The tables of the endpoints.                                            *)
(***************************************************************************)
IndexTables ==
    LET Row(code, exact, prev_close, bad) ==
            [code |-> code, exact |-> exact, prev_close |-> prev_close, high |-> 12,
             low |-> 11, bad |-> bad]
        Frame(has_code, rows) == [none |-> FALSE, has_code |-> has_code, rows |-> rows]
    IN  { Frame(TRUE, <<Row("sz399001", FALSE, 0, FALSE), Row("sh000001", TRUE, 10, FALSE)>>),
          Frame(TRUE, <<Row("sh000001", TRUE, 10, FALSE), Row("sz399001", TRUE, 10, TRUE)>>),
          Frame(FALSE, <<Row("sh000001", TRUE, 10, FALSE)>>),
          Frame(TRUE, <<>>) }

HkTables ==
    LET Row(name, prev_close, bad) ==
            [name |-> name, code |-> name, prev_close |-> prev_close, high |-> 12,
             low |-> 11, bad |-> bad]
        Frame(has_name, rows) == [none |-> FALSE, has_name |-> has_name, rows |-> rows]
    IN  { Frame(TRUE, <<Row("HSI", 10, FALSE), Row("other", 10, TRUE), Row("HSTECH", 0, FALSE)>>),
          Frame(TRUE, <<Row("HSI", 10, FALSE), Row("HSCEI", 10, TRUE)>>),
          Frame(FALSE, <<Row("HSI", 10, FALSE)>>),
          NoneFrame }

UsFrame(prev_close, bad) ==
    [none |-> FALSE, rows |-> <<[prev_close |-> prev_close, high |-> 12, low |-> 11, bad |-> bad]>>]

UsTables ==
    { <<UsFrame(10, FALSE), UsFrame(0, FALSE), UsFrame(10, FALSE)>>,
      <<UsFrame(10, FALSE), UsFrame(10, TRUE), NoneFrame>> }

QuoteRow(change, amount) == [change |-> change, amount |-> amount]

Yi(n) == Num(n * YuanPerYi)

QuoteFrame(change, amount, rows) ==
    [none |-> FALSE, change |-> change, amount |-> amount, rows |-> rows]

\* every quote table of up to MaxQuoteRows rows whose percent changes are
\* 10.00, 9.90, 3.20, 0, -9.95 or a cell that is no number
QuoteTables ==
    LET PctCells == {Num(1000), Num(990), Num(320), Num(0), Num(0 - 995), Text}
        QuoteRows == {QuoteRow(c, Yi(2)) : c \in PctCells}
        QuoteColumns ==
            { <<"numeric", "numeric">>, <<"absent", "numeric">>,
              <<"numeric", "unconvertible">> }
    IN  { QuoteFrame(cols[1], cols[2], rows) :
            cols \in QuoteColumns,
            rows \in UNION {[1..n -> QuoteRows] : n \in 0..MaxQuoteRows} }

SmallQuoteTables ==
    { QuoteFrame("numeric", "numeric",
                 <<QuoteRow(Num(1000), Yi(1)), QuoteRow(Num(0 - 995), Text),
                   QuoteRow(Num(0), Yi(1)), QuoteRow(Num(320), Yi(3))>>),
      QuoteFrame("numeric", "unconvertible", <<QuoteRow(Num(320), Yi(1)), QuoteRow(Text, Yi(1))>>),
      QuoteFrame("unconvertible", "numeric", <<QuoteRow(Num(320), Yi(1))>>),
      QuoteFrame("absent", "absent", <<QuoteRow(Num(320), Yi(1))>>) }

BoardTables ==
    LET Row(sector, change) == [sector |-> sector, change |-> change]
        Frame(has_change, has_sector, rows) ==
            [none |-> FALSE, has_change |-> has_change, has_sector |-> has_sector,
             rows |-> rows]
    IN  { Frame(TRUE, TRUE,
                <<Row("s1", Num(100)), Row("s2", Num(300)), Row("s3", Text),
                  Row("s4", Num(100)), Row("s5", Num(0 - 200)), Row("s6", Num(0)),
                  Row("s7", Num(50))>>),
          Frame(TRUE, FALSE, <<Row("s1", Num(100))>>),
          Frame(FALSE, TRUE, <<Row("s1", Num(100))>>) }

(***************************************************************************)
(* Specification SpecOverview: one run of get_market_overview.             *)
(***************************************************************************)
InitOverview ==
    /\ \E ix \in IndexTables, hk \in HkTables, us \in UsTables, q \in SmallQuoteTables,
          b \in BoardTables :
          world = [fn |-> NoneFrame, index_spot |-> ix, hk_spot |-> hk, us |-> us,
                   a_spot |-> q, board |-> b]
    /\ pc = "p1" /\ overview = IdleOverview /\ loc = IdleLoc /\ hist = <<>>
    /\ rt = IdleRt
    /\ tr = IdleTr /\ fx = IdleFx /\ nm = IdleNm /\ rg = IdleRg

NextOverview ==
    \/ P1Call \/ P1Process
    \/ P2Call \/ P2Process
    \/ P3Start \/ P3Fetch \/ P3Return
    \/ P4Call \/ P4Process
    \/ P5Call \/ P5Process
    \/ RetryCallReturns \/ RetryCallRaises \/ RetrySleep \/ RetryExhausted

SpecOverview == InitOverview /\ [][NextOverview]_vars

(***************************************************************************)
(* Claim about get_market_overview (checked under SpecOverview).           *)
(***************************************************************************)
PhasesRun == [i \in DOMAIN hist |-> hist[i].phase]

\* no exception has left get_market_overview, the phases that have ended are
\* 1, 2, ... in this order, once each, and the overview is returned only
\* after all five
NoPhaseSkipped ==
    /\ pc # "raised"
    /\ Len(hist) <= 5
    /\ PhasesRun = [i \in 1..Len(hist) |-> i]
    /\ pc = "done" => Len(hist) = 5

\* get_market_overview has a next step: a phase to call, a helper that is
\* running or has handed control back, or the loop of phase 3
HasNextStep ==
    \/ pc \in {"p1", "p2", "p3", "p4", "p5", "p3_loop"}
    \/ /\ pc \in {"p1_call", "p2_call", "p4_call", "p5_call"}
       /\ \/ rt.pc \in {"returned", "raised"}
          \/ ENABLED (RetryCallReturns \/ RetryCallRaises \/ RetrySleep \/ RetryExhausted)

\* C1: whichever endpoint calls raise and whatever tables the others hand
\* over, get_market_overview lets no exception out, runs its phases 1, 2, 3,
\* 4, 5 once each in this order, a failed phase being followed by the next
\* one, and is never stopped short of returning the overview: until it has
\* returned, a next step exists.
C1_AlwaysReturnsAfterFivePhases ==
    /\ NoPhaseSkipped
    /\ pc # "done" => HasNextStep

\* C1 witness: the overview was returned after phase 1 failed with KeyError,
\* the hk endpoint raised at both attempts, every us call raised, phase 4
\* failed with TypeError and phase 5 with KeyError.
C1_Witness ==
    /\ pc = "done"
    /\ PhasesRun = <<1, 2, 3, 4, 5>>
    /\ hist[1].exc = "KeyError"
    /\ Usable(world.hk_spot) /\ ~hist[2].usable /\ overview.hk_indices = <<>>
    /\ \A i \in 1..3 : Usable(world.us[i]) /\ ~world.us[i].rows[1].bad
    /\ overview.us_indices = <<>>
    /\ hist[4].exc = "TypeError"
    /\ hist[5].exc = "KeyError"

\* the fields of the overview that phase k owns are at their defaults
OwnedFieldsDefault(k) ==
    CASE k = 1 -> overview.indices = IdleOverview.indices
      [] k = 2 -> overview.hk_indices = IdleOverview.hk_indices
      [] k = 3 -> overview.us_indices = IdleOverview.us_indices
      [] k = 4 -> /\ overview.up_count = 0 /\ overview.down_count = 0
                  /\ overview.flat_count = 0
                  /\ overview.limit_up_count = 0 /\ overview.limit_down_count = 0
                  /\ overview.total_amount = 0
      [] k = 5 -> overview.top_sectors = <<>> /\ overview.bottom_sectors = <<>>

\* C11: in the returned overview, the fields owned by a phase that ended with
\* an exception (raised at any point of the phase, also after some rows were
\* processed) hold their default values: an empty index list for phases 1-3,
\* zero counters and zero turnover for phase 4, empty sector lists for phase 5.
C11_FailedPhaseLeavesDefaults ==
    pc = "done" =>
        \A k \in DOMAIN hist : hist[k].exc # "none" => OwnedFieldsDefault(hist[k].phase)

\* (high - low) / prev_close x 100 in hundredths of a percent when prev_close
\* is positive, and 0 otherwise
AmplitudeAsSpecified(index) ==
    index.amplitude = IF index.prev_close > 0
                      THEN ((index.high - index.low) * 100 * 100) \div index.prev_close
                      ELSE 0

\* C12: every MarketIndex of the returned overview, in indices, hk_indices and
\* us_indices alike, has amplitude = (high - low) / prev_close x 100 when
\* prev_close > 0 and amplitude = 0 otherwise.
C12_AmplitudeOfEveryIndex ==
    pc = "done" =>
        /\ \A i \in DOMAIN overview.indices : AmplitudeAsSpecified(overview.indices[i])
        /\ \A i \in DOMAIN overview.hk_indices : AmplitudeAsSpecified(overview.hk_indices[i])
        /\ \A i \in DOMAIN overview.us_indices : AmplitudeAsSpecified(overview.us_indices[i])

(***************************************************************************)
(* Specification SpecStats: _get_market_statistics on a fresh overview,    *)
(* for every quote table of up to MaxQuoteRows rows.                       *)
(***************************************************************************)
InitStats ==
    /\ \E q \in QuoteTables : world = [IdleWorld EXCEPT !.a_spot = q]
    /\ pc = "p4" /\ overview = IdleOverview /\ loc = IdleLoc /\ hist = <<>>
    /\ rt = IdleRt
    /\ tr = IdleTr /\ fx = IdleFx /\ nm = IdleNm /\ rg = IdleRg

NextStats ==
    \/ P4Call \/ P4Process
    \/ RetryCallReturns \/ RetryCallRaises \/ RetrySleep \/ RetryExhausted

SpecStats == InitStats /\ [][NextStats]_vars

(***************************************************************************)
(* Claim about the breadth counters (checked under SpecStats).             *)
(***************************************************************************)
\* the rows of the quote table whose percent change is a number, and the
\* percent change of such a row
NumberRows == {i \in DOMAIN world.a_spot.rows : world.a_spot.rows[i].change.kind = "number"}
Pct(i) == world.a_spot.rows[i].change.v

\* phase 4 got the quote table, found its percent-change column and ended
\* without an exception
Phase4Succeeded ==
    /\ hist # <<>>
    /\ Last(hist).phase = 4 /\ Last(hist).usable /\ Last(hist).exc = "none"
    /\ world.a_spot.change = "numeric"

\* C10: after phase 4 succeeded on a quote table, up_count, down_count and
\* flat_count are the numbers of rows whose percent change is > 0, < 0 and
\* = 0, and limit_up_count, limit_down_count the numbers of rows whose percent
\* change is >= 9.9 and <= -9.9; a limit row is counted as an up or down row
\* too.
C10_BreadthCountersAreRowCounts ==
    Phase4Succeeded =>
        /\ overview.up_count = Cardinality({i \in NumberRows : Pct(i) > 0})
        /\ overview.down_count = Cardinality({i \in NumberRows : Pct(i) < 0})
        /\ overview.flat_count = Cardinality({i \in NumberRows : Pct(i) = 0})
        /\ overview.limit_up_count = Cardinality({i \in NumberRows : Pct(i) >= 990})
        /\ overview.limit_down_count = Cardinality({i \in NumberRows : Pct(i) <= 0 - 990})
        /\ overview.limit_up_count <= overview.up_count
        /\ overview.limit_down_count <= overview.down_count

\* C10 witness: phase 4 succeeded on the percent changes 10.0, -9.95, 0.0,
\* 3.2 and counted limit_up 1, limit_down 1, up 2, down 1, flat 1.
C10_Witness ==
    /\ Phase4Succeeded
    /\ [i \in DOMAIN world.a_spot.rows |-> world.a_spot.rows[i].change]
          = <<Num(1000), Num(0 - 995), Num(0), Num(320)>>
    /\ overview.limit_up_count = 1 /\ overview.limit_down_count = 1
    /\ overview.up_count = 2 /\ overview.down_count = 1 /\ overview.flat_count = 1


(***************************************************************************)
(* MarketAnalyzer.run_daily_review: get_market_overview, search_market_news *)
(* and generate_market_review in sequence.  Here loc holds the analyzer    *)
(* and the search service the MarketAnalyzer was built with, the locals of *)
(* search_market_news and the report.                                      *)
(***************************************************************************)
\* not self.analyzer or not self.analyzer.is_available(); self.analyzer is
\* None, or an analyzer whose is_available() is False, or an available one on
\* the OpenAI-compatible API or on the Gemini API
AnalyzerMissing(analyzer) == analyzer \in {"None", "unavailable"}

\* the names the prompt's f-string reads
PromptNames == {"overview", "us_text", "hk_text", "indices_text", "news_text"}

\* the names _build_review_prompt can resolve: its parameters and local, and
\* the globals of the module
PromptScope ==
    {"self", "overview", "news", "prompt"}
        \cup {"logging", "time", "dataclass", "field", "datetime", "Optional", "Dict", "Any",
              "List", "ak", "pd", "get_config", "SearchService", "logger", "MarketIndex",
              "MarketOverview", "MarketAnalyzer"}

\* _build_review_prompt: the f-string is evaluated; a name that resolves
\* nowhere raises NameError
BuildReviewPrompt ==
    IF PromptNames \subseteq PromptScope THEN Returned("prompt") ELSE Raised("NameError")

\* _generate_template_review: the report built from the overview
TemplateReview(ov) ==
    [text |-> "template", up_count |-> ov.up_count, down_count |-> ov.down_count,
     limit_up_count |-> ov.limit_up_count, limit_down_count |-> ov.limit_down_count]

\* the search queries of search_market_news
SearchQueries == <<"q1", "q2", "q3">>

\* what get_market_overview hands to run_daily_review: an overview with
\* nothing fetched, and one after a day with quotes
ReturnedOverviews ==
    { IdleOverview,
      [IdleOverview EXCEPT !.up_count = 2, !.down_count = 1, !.flat_count = 1,
                           !.limit_up_count = 1, !.limit_down_count = 1] }

\* run_daily_review is entered: no news and no report yet
IdleReview ==
    [analyzer |-> "None", search_service |-> FALSE, i |-> 0, all_news |-> <<>>,
     report |-> [text |-> "none", up_count |-> 0, down_count |-> 0, limit_up_count |-> 0,
                 limit_down_count |-> 0],
     error |-> "none"]

\* overview = self.get_market_overview()
DailyOverview ==
    /\ pc = "r_overview"
    /\ overview' \in ReturnedOverviews
    /\ pc' = "r_news"
    /\ UNCHANGED <<tr, fx, nm, rg, rt, loc, world, hist>>

\* search_market_news without a search service: return []
NewsNoService ==
    /\ pc = "r_news"
    /\ ~loc.search_service
    /\ pc' = "r_review"
    /\ UNCHANGED <<tr, fx, nm, rg, rt, overview, loc, world, hist>>

\* search_market_news with a search service: all_news = [], the loop is entered
NewsStart ==
    /\ pc = "r_news"
    /\ loc.search_service
    /\ loc' = [loc EXCEPT !.i = 1, !.all_news = <<>>]
    /\ pc' = "news_loop"
    /\ UNCHANGED <<tr, fx, nm, rg, rt, overview, world, hist>>

\* one query: search_stock_news raises (caught: the news so far are
\* returned), or answers with nothing, or with results that are kept
NewsQuery ==
    /\ pc = "news_loop"
    /\ loc.i <= Len(SearchQueries)
    /\ \E answer \in {"raises", "nothing", "results"} :
          CASE answer = "raises" -> loc' = loc /\ pc' = "r_review"
            [] answer = "nothing" -> loc' = [loc EXCEPT !.i = @ + 1] /\ pc' = pc
            [] answer = "results" ->
                  /\ loc' = [loc EXCEPT !.i = @ + 1,
                                        !.all_news = Append(@, SearchQueries[loc.i])]
                  /\ pc' = pc
    /\ UNCHANGED <<tr, fx, nm, rg, rt, overview, world, hist>>

\* return all_news
NewsReturn ==
    /\ pc = "news_loop"
    /\ loc.i > Len(SearchQueries)
    /\ pc' = "r_review"
    /\ UNCHANGED <<tr, fx, nm, rg, rt, overview, loc, world, hist>>

\* generate_market_review without a usable analyzer: the template report is
\* returned, and run_daily_review returns it
ReviewTemplate ==
    /\ pc = "r_review"
    /\ AnalyzerMissing(loc.analyzer)
    /\ loc' = [loc EXCEPT !.report = TemplateReview(overview)]
    /\ pc' = "r_done"
    /\ UNCHANGED <<tr, fx, nm, rg, rt, overview, world, hist>>

\* generate_market_review with a usable analyzer:
\* prompt = self._build_review_prompt(overview, news), ahead of the try block;
\* what it raises leaves generate_market_review and run_daily_review.  The try
\* block (the model call and the fallback to the template) follows a prompt
\* that was returned.
ReviewBuildPrompt ==
    /\ pc = "r_review"
    /\ ~AnalyzerMissing(loc.analyzer)
    /\ IF BuildReviewPrompt.ok
       THEN loc' = loc /\ pc' = "r_try"
       ELSE loc' = [loc EXCEPT !.error = BuildReviewPrompt.err] /\ pc' = "raised"
    /\ UNCHANGED <<tr, fx, nm, rg, rt, overview, world, hist>>

(***************************************************************************)
(* Specification SpecReview: one run of run_daily_review.                  *)
(***************************************************************************)
InitReview ==
    /\ \E analyzer \in {"None", "unavailable", "openai", "gemini"}, service \in BOOLEAN :
          loc = [IdleReview EXCEPT !.analyzer = analyzer, !.search_service = service]
    /\ pc = "r_overview" /\ overview = IdleOverview /\ world = IdleWorld /\ hist = <<>>
    /\ tr = IdleTr /\ fx = IdleFx /\ nm = IdleNm /\ rg = IdleRg /\ rt = IdleRt

NextReview ==
    \/ DailyOverview
    \/ NewsNoService \/ NewsStart \/ NewsQuery \/ NewsReturn
    \/ ReviewTemplate \/ ReviewBuildPrompt

SpecReview == InitReview /\ [][NextReview]_vars

(***************************************************************************)
(* Claim about generate_market_review (checked under SpecReview).          *)
(***************************************************************************)
\* C14: generate_market_review, and with it run_daily_review, lets no
\* exception out and returns a report text: the model's review, or the
\* template report whenever the analyzer is missing or unavailable or the
\* prompt or the model call fails.
C14_AlwaysReturnsReport ==
    /\ pc # "raised"
    /\ pc = "r_done" => loc.report.text # "none"

=============================================================================
